---------------------------- MODULE Spec2Model ----------------------------
(***************************************************************************)
(* Model of the Nuke render submitter panel (python/submission_panel.py):  *)
(* SubmitterPanel.show and the methods it calls.  Strings whose content    *)
(* the code inspects (frame range, OCIO path, file paths) are sequences of *)
(* one-character strings; the other strings are opaque.                    *)
(***************************************************************************)
EXTENDS Integers, Sequences, FiniteSets, TLC

(***************************************************************************)
(* Bounds of the model.                                                    *)
(***************************************************************************)
MaxNodes == 2       \* nodes in the scene (flow specification)
MaxPasses == 2      \* calls of SubmitterPanel.show in one session (session specification)

(***************************************************************************)
(* Python str and int operations used by the code.                         *)
(***************************************************************************)
DigitChars == <<"0", "1", "2", "3", "4", "5", "6", "7", "8", "9">>

IsDigit(c) == \E d \in 1..10 : DigitChars[d] = c

DigitVal(c) == (CHOOSE d \in 1..10 : DigitChars[d] = c) - 1

Drop(s, n) == SubSeq(s, n + 1, Len(s))

StartsWith(s, p) == Len(p) <= Len(s) /\ SubSeq(s, 1, Len(p)) = p

EndsWith(s, p) == Len(p) <= Len(s) /\ SubSeq(s, Len(s) - Len(p) + 1, Len(s)) = p

\* str.replace(old, new): every non-overlapping occurrence, leftmost first
RECURSIVE Replace(_, _, _)
Replace(s, old, new) ==
    IF s = <<>> THEN <<>>
    ELSE IF StartsWith(s, old) THEN new \o Replace(Drop(s, Len(old)), old, new)
    ELSE <<Head(s)>> \o Replace(Tail(s), old, new)

\* str.split(c): the pieces between the occurrences of the separator c
RECURSIVE Split(_, _)
Split(s, c) ==
    IF \A i \in 1..Len(s) : s[i] # c THEN <<s>>
    ELSE LET i == CHOOSE i \in 1..Len(s) : s[i] = c /\ \A j \in 1..(i - 1) : s[j] # c
         IN  <<SubSeq(s, 1, i - 1)>> \o Split(Drop(s, i), c)

RECURSIVE DigitsValue(_)
DigitsValue(s) ==
    IF s = <<>> THEN 0 ELSE 10 * DigitsValue(SubSeq(s, 1, Len(s) - 1)) + DigitVal(s[Len(s)])

\* int(s) accepts an optional sign followed by at least one digit
IntParses(s) ==
    LET body == IF s # <<>> /\ Head(s) \in {"+", "-"} THEN Tail(s) ELSE s
    IN  body # <<>> /\ \A i \in 1..Len(body) : IsDigit(body[i])

IntOf(s) ==
    IF Head(s) = "-" THEN 0 - DigitsValue(Tail(s))
    ELSE IF Head(s) = "+" THEN DigitsValue(Tail(s))
    ELSE DigitsValue(s)

RECURSIVE NatStr(_)
NatStr(n) == IF n < 10 THEN <<DigitChars[n + 1]>> ELSE NatStr(n \div 10) \o <<DigitChars[(n % 10) + 1]>>

\* f"{n}" of an int
IntStr(n) == IF n < 0 THEN <<"-">> \o NatStr(0 - n) ELSE NatStr(n)

\* f"{n:02d}" of an int n >= 0
Pad2(n) == IF n < 10 THEN <<"0">> \o NatStr(n) ELSE NatStr(n)

(***************************************************************************)
(* os.path of the host platform.  Paths in the model carry no UNC prefix.  *)
(***************************************************************************)
Seps(platform) == IF platform = "Windows" THEN {"/", "\\"} ELSE {"/"}

\* ntpath.splitdrive for a drive letter; posixpath has no drive
DriveLen(platform, p) == IF platform = "Windows" /\ Len(p) >= 2 /\ p[2] = ":" THEN 2 ELSE 0

\* index of the last separator of p, 0 if none
LastSep(platform, p) ==
    IF \E i \in 1..Len(p) : p[i] \in Seps(platform)
    THEN CHOOSE i \in 1..Len(p) : p[i] \in Seps(platform) /\ \A j \in (i + 1)..Len(p) : p[j] \notin Seps(platform)
    ELSE 0

RECURSIVE RStripSeps(_, _)
RStripSeps(platform, s) ==
    IF s # <<>> /\ s[Len(s)] \in Seps(platform) THEN RStripSeps(platform, SubSeq(s, 1, Len(s) - 1)) ELSE s

Dirname(platform, path) ==
    LET d == DriveLen(platform, path)
        p == Drop(path, d)
        head == SubSeq(p, 1, LastSep(platform, p))
        stripped == RStripSeps(platform, head)
    IN  SubSeq(path, 1, d) \o (IF stripped = <<>> THEN head ELSE stripped)

Basename(platform, path) ==
    LET d == DriveLen(platform, path)
        p == Drop(path, d)
    IN  Drop(p, LastSep(platform, p))

\* os.path.join(a, b) for a relative b without a drive
Join(platform, a, b) ==
    IF platform = "Windows"
    THEN IF a # <<>> /\ Len(a) > DriveLen(platform, a) /\ a[Len(a)] \notin Seps(platform)
         THEN a \o <<"\\">> \o b
         ELSE a \o b
    ELSE IF a = <<>> \/ a[Len(a)] = "/" THEN a \o b ELSE a \o <<"/">> \o b

(***************************************************************************)
(* String literals of the code.                                            *)
(***************************************************************************)
VolumesProduction == <<"/", "V", "o", "l", "u", "m", "e", "s", "/", "p", "r", "o", "d", "u", "c", "t", "i", "o", "n", "/">>

FarmDrive == <<"P", ":", "/">>

ReviewName == <<"r", "e", "v", "i", "e", "w">>

MovSuffix == <<".", "m", "o", "v">>

ExrSuffix == <<".", "e", "x", "r">>

TmpName == <<"t", "m", "p">>

TmpInfix == <<"_", "t", "m", "p", "_">>

NkSuffix == <<".", "n", "k">>

RootDefaultName == <<"R", "o", "o", "t">>

MovChunkSize == 1000000

\* faulty variant of GetOcioPath: the backslashes are left as they are
GetOcioPathKeepsBackslashes(platform, ocio) ==
    IF ocio = <<>> THEN <<>>
    ELSE IF platform # "Windows" THEN Replace(ocio, VolumesProduction, FarmDrive)
    ELSE ocio

(***************************************************************************)
(* SubmitterPanel._get_ocio_path: ocio is the value of os.getenv("OCIO",   *)
(* ""), the empty sequence when the variable is unset.                     *)
(***************************************************************************)
GetOcioPath(platform, ocio) ==
    IF ocio = <<>> THEN <<>>
    ELSE IF platform # "Windows"
    THEN Replace(Replace(ocio, VolumesProduction, FarmDrive), <<"\\">>, <<"/">>)
    ELSE ocio

(***************************************************************************)
(* Truth value of a knob object in "if self.add_slate:".  The knob itself  *)
(* is tested, not its value(): a Python object that defines neither        *)
(* __bool__ nor __len__ is true.                                           *)
(***************************************************************************)
KnobObjectTruth(value) == TRUE

(***************************************************************************)
(* SubmitterPanel.get_adjusted_frame_range.  The result is the formatted   *)
(* range, or the ValueError that int() or the unpacking of the split       *)
(* raises.                                                                 *)
(***************************************************************************)
Raised(e) == [exc |-> e, value |-> <<>>]

Returned(v) == [exc |-> "none", value |-> v]

GetAdjustedFrameRange(form) ==
    LET parts == Split(form.frame_range, "-")
    IN  IF Len(parts) # 2 \/ \E i \in 1..Len(parts) : ~IntParses(parts[i])
        THEN Raised("ValueError")
        ELSE LET start_frame == IntOf(parts[1])
                 end_frame == IntOf(parts[2])
                 adjusted == IF KnobObjectTruth(form.add_slate) THEN start_frame - 1 ELSE start_frame
             IN  Returned(IntStr(adjusted) \o <<"-">> \o IntStr(end_frame))

\* faulty variant of StripFrameSuffix: only the extension is removed
StripFrameSuffixExtensionOnly(s) ==
    IF EndsWith(s, ExrSuffix) THEN SubSeq(s, 1, Len(s) - Len(ExrSuffix)) ELSE s

(***************************************************************************)
(* re.sub(r"\.\d{4,}\.exr$", "", filename)                                 *)
(***************************************************************************)
FrameSuffixAt(s, i) ==
    /\ s[i] = "."
    /\ EndsWith(s, ExrSuffix)
    /\ (Len(s) - Len(ExrSuffix)) - i >= 4
    /\ \A k \in (i + 1)..(Len(s) - Len(ExrSuffix)) : IsDigit(s[k])

StripFrameSuffix(s) ==
    IF \E i \in 1..Len(s) : FrameSuffixAt(s, i)
    THEN LET i == CHOOSE i \in 1..Len(s) : FrameSuffixAt(s, i) IN SubSeq(s, 1, i - 1)
    ELSE s

(***************************************************************************)
(* SubmitterPanel._get_render_template.  toolkit is what the tracking      *)
(* toolkit does inside the try block: it raises, or apply_fields returns a *)
(* path.  The result is None (none = TRUE) or the path.                    *)
(***************************************************************************)
NonePath == [none |-> TRUE, path |-> <<>>]

SomePath(p) == [none |-> FALSE, path |-> p]

GetRenderTemplate(platform, toolkit) ==
    IF toolkit.raises THEN NonePath
    ELSE IF platform = "Windows" THEN SomePath(Replace(toolkit.path, <<"\\">>, <<"/">>))
    ELSE SomePath(toolkit.path)

\* "not render_path": None and the empty string are false
Falsy(r) == r.none \/ r.path = <<>>

(***************************************************************************)
(* SubmitterPanel._build_temp_nuke_script, the output path: the fallback   *)
(* branch and the choice of output_file_path.                              *)
(***************************************************************************)
TakesFallback(resolved) == Falsy(resolved)

ReviewDir(platform, original_path) == Join(platform, Dirname(platform, original_path), ReviewName)

FallbackRenderPath(platform, original_path) ==
    Join(platform, ReviewDir(platform, original_path),
         StripFrameSuffix(Basename(platform, original_path)) \o MovSuffix)

OutputFilePath(platform, resolved, original_path) ==
    LET render_path == IF TakesFallback(resolved)
                       THEN FallbackRenderPath(platform, original_path)
                       ELSE resolved.path
    IN  Replace(render_path, <<"\\">>, <<"/">>)

\* directories os.makedirs(..., exist_ok=True) makes sure exist
MadeDirs(platform, resolved, original_path) ==
    LET render_path == IF TakesFallback(resolved)
                       THEN FallbackRenderPath(platform, original_path)
                       ELSE resolved.path
    IN  (IF TakesFallback(resolved) THEN {ReviewDir(platform, original_path)} ELSE {})
        \cup {Dirname(platform, render_path)}

(***************************************************************************)
(* SubmitterPanel._build_temp_nuke_script, the script name: the first      *)
(* number from 1 whose file is not in the tmp directory.                   *)
(***************************************************************************)
\* pathlib.Path(p).stem: the final component without its last suffix
Stem(platform, path) ==
    LET name == Basename(platform, path)
        dots == {i \in 2..Len(name) : name[i] = "."}
    IN  IF dots = {} \/ name[Len(name)] = "." THEN name
        ELSE SubSeq(name, 1, (CHOOSE i \in dots : \A j \in dots : j <= i) - 1)

NewScriptDir(platform, script) == Join(platform, Dirname(platform, script), TmpName)

NewScriptPath(platform, script, n) ==
    Join(platform, NewScriptDir(platform, script),
         Stem(platform, script) \o TmpInfix \o Pad2(n) \o NkSuffix)

\* faulty variant of FirstFreeNumber: the tmp directory is not probed
FirstFreeNumberNoProbe(platform, script, files, n) == n

RECURSIVE FirstFreeNumber(_, _, _, _)
FirstFreeNumber(platform, script, files, n) ==
    IF NewScriptPath(platform, script, n) \in files
    THEN FirstFreeNumber(platform, script, files, n + 1)
    ELSE n

(***************************************************************************)
(* Inputs of the model: what the user enters, what the environment holds.  *)
(***************************************************************************)
FrameRanges == {<<"1", "-", "3">>, <<"0", "-", "2">>, <<"-", "2", "-", "3">>, <<"9", "-", "1", "0">>, <<"1", "0", "0", "-", "1", "0", "0">>}

ChunkSizes == {1, 10}

Priorities == {33}

Forms ==
    [frame_range : FrameRanges, chunk_size : ChunkSizes, priority : Priorities,
     render_review : BOOLEAN, add_slate : BOOLEAN, add_burn : BOOLEAN]

Platforms == {"Darwin", "Windows"}

OcioValues == {<<>>, <<"/", "V", "o", "l", "u", "m", "e", "s", "/", "p", "r", "o", "d", "u", "c", "t", "i", "o", "n", "/", "o", "\\", "c", "/", "V", "o", "l", "u", "m", "e", "s", "/", "p", "r", "o", "d", "u", "c", "t", "i", "o", "n", "/", "x">>, <<"C", ":", "\\", "o">>, <<"/", "V", "o", "l", "u", "m", "e", "s", "/", "p", "r", "o", "d", "u", "c", "t", "i", "o", "n", "/", "c", ".", "o", "c", "i", "o">>}

SavedScript == <<"/", "p", "/", "a", ".", "n", "k">>

RootNames == {<<>>, RootDefaultName, SavedScript}

\* node["file"] of a write node
ReadPaths == {<<"/", "r", "/", "s", ".", "1", "0", "0", "1", ".", "e", "x", "r">>, <<"/", "r", "/", "s", ".", "1", "0", "0", "1", ".", "p", "n", "g">>, <<"/", "r", "/", "s", ".", "1", "0", "1", ".", "e", "x", "r">>, <<"/", "r", "/", "1", "0", "0", "1", ".", "e", "x", "r">>, <<"/", "r", "/", "s", ".", "1", "0", "0", "1", "1", ".", "e", "x", "r">>, <<"/", "r", "/", "s", ".", "1", "0", "0", "1", ".", "e", "x", "r", ".", "1", "0", "0", "2", ".", "e", "x", "r">>}

\* what render_template.apply_fields returns when the toolkit resolves the template
TemplatePaths == {<<>>, <<"/", "m", "\\", "s", ".", "m", "o", "v">>}

ToolkitOutcomes == {[raises |-> TRUE, path |-> <<>>]} \cup {[raises |-> FALSE, path |-> t] : t \in TemplatePaths}

\* the files of the resources directory
Resources == [template : {"ok", "missing", "badformat"}, burn : {"ok", "missing", "nomarker"}]

\* subprocess.run: the tool cannot be started, or it exits with a status
ToolResults ==
    { [launched |-> FALSE, returncode |-> 0, stdout |-> "", stderr |-> ""],
      [launched |-> TRUE, returncode |-> 0, stdout |-> "JobID=1", stderr |-> ""],
      [launched |-> TRUE, returncode |-> 1, stdout |-> "submitting", stderr |-> "Error: no pool"] }

DirStates == {"absent", "empty", "files"}

NodeClasses == {"Write", "WriteTank", "Grade"}

NodeNames == 1..MaxNodes

\* a scene: the nodes in the order nuke.allNodes() lists them; tank marks a
\* Write node the integration app converted from a WriteTank node
Nodes == [name : NodeNames, class : NodeClasses, selected : BOOLEAN, disabled : BOOLEAN, tank : BOOLEAN]

Scenes ==
    UNION { { s \in [1..n -> Nodes] :
                \A i \in 1..n : s[i].name = i /\ ~s[i].disabled /\ ~s[i].tank } : n \in 0..MaxNodes }

(***************************************************************************)
(* The state.                                                              *)
(***************************************************************************)
VARIABLES
    rootName,          \* nuke.root().name()
    platform,          \* platform.system()
    ocioEnv,           \* os.getenv("OCIO", "")
    scene,             \* the nodes of the scene, in nuke.allNodes() order
    tmpFiles,          \* the files of the tmp directory beside the scene script
    dirs,              \* the directories os.mkdir / os.makedirs have made sure exist
    scriptLog,         \* one record per open(new_script_path, "w"), in order
    passes,            \* calls of SubmitterPanel.show so far
    pc,                \* where the running call of show is; "idle" when none runs
    outcome,           \* how the last call of show ended
    exception,         \* the exception that ended it, "none" if it returned
    form,              \* the knob values of the confirmed panel
    eligible,          \* what _get_write_nodes returned (node names)
    write_nodes,       \* the list show iterates over (node names)
    chk,               \* position of any() in the existing-files check
    checks,            \* the calls of _check_write_has_files of this call of show
    idx,               \* position of the for loop over write_nodes
    app,               \* engine.apps.get("tk-nuke-writenode") is available
    conversions,       \* the calls of the app's convert_to / convert_from
    node_file,         \* node["file"] of the node whose turn it is
    submission_files,  \* submission_files of the node whose turn it is
    descriptors,       \* the descriptor files written for the node whose turn it is
    nWritten,          \* descriptor files written in this call of show
    scriptFile,        \* the temporary script written for the node whose turn it is
    messages,          \* nuke.message / nuke.ask dialogs of this call of show
    invocations        \* subprocess.run calls of this call of show

env == <<rootName, platform, ocioEnv>>

disk == <<tmpFiles, dirs, scriptLog>>

vars ==
    <<rootName, platform, ocioEnv, scene, tmpFiles, dirs, scriptLog, passes, pc, outcome,
      exception, form, eligible, write_nodes, chk, checks, idx, app, conversions, node_file,
      submission_files, descriptors, nWritten, scriptFile, messages, invocations>>

(***************************************************************************)
(* Helpers on the scene.                                                   *)
(***************************************************************************)
RECURSIVE NamesWhere(_, _, _)
\* names of the nodes of sc, in order, for which `selected_only => selected`
\* holds and whose class is in classes
NamesWhere(sc, selected_only, classes) ==
    IF sc = <<>> THEN <<>>
    ELSE (IF (selected_only => Head(sc).selected) /\ Head(sc).class \in classes
          THEN <<Head(sc).name>> ELSE <<>>) \o NamesWhere(Tail(sc), selected_only, classes)

NodeOf(sc, name) == sc[CHOOSE i \in DOMAIN sc : sc[i].name = name]

InScene(sc, name) == \E i \in DOMAIN sc : sc[i].name = name

RECURSIVE Without(_, _)
Without(seq, dropped) ==
    IF seq = <<>> THEN <<>>
    ELSE (IF Head(seq) \in dropped THEN <<>> ELSE <<Head(seq)>>) \o Without(Tail(seq), dropped)

Range(seq) == {seq[i] : i \in DOMAIN seq}

\* SubmitterPanel._get_write_nodes; None and [] are both the empty sequence
\* (show tests "not write_nodes")
GetWriteNodes(sc, selected_only) == NamesWhere(sc, selected_only, {"Write", "WriteTank"})

\* SubmitterPanel._check_write_has_files: dir is the state of the output
\* directory, answer what the user answers to nuke.ask
CheckWriteHasFiles(dir, answer) ==
    IF dir = "absent" THEN "True"
    ELSE IF dir = "files" THEN (IF answer THEN "True" ELSE "False")
    ELSE "None"

Truthy(result) == result = "True"

\* SubmitterPanel._convert_write_nodes(nodes, "to"): available is whether the
\* integration app is there, lost the converted nodes nuke.toNode does not find
ConvertedNodes(sc, nodes, available, lost) ==
    LET tanks == {n \in Range(nodes) : NodeOf(sc, n).class = "WriteTank"}
    IN  IF ~available \/ tanks = {} THEN nodes
        ELSE Without(nodes, tanks) \o Without(Without(nodes, Range(nodes) \ tanks), lost)

RECURSIVE DropNodes(_, _)
DropNodes(sc, lost) ==
    IF sc = <<>> THEN <<>>
    ELSE (IF Head(sc).name \in lost THEN <<>> ELSE <<Head(sc)>>) \o DropNodes(Tail(sc), lost)

\* the app's convert_to_write_nodes: every WriteTank node of the scene becomes a Write node
ConvertToWrite(sc, lost) ==
    LET kept == DropNodes(sc, lost)
    IN  [i \in DOMAIN kept |->
            IF kept[i].class = "WriteTank" THEN [kept[i] EXCEPT !.class = "Write", !.tank = TRUE]
            ELSE kept[i]]

\* the app's convert_from_write_nodes: every converted Write node becomes a WriteTank node again
ConvertFromWrite(sc) ==
    [i \in DOMAIN sc |->
        IF sc[i].class = "Write" /\ sc[i].tank THEN [sc[i] EXCEPT !.class = "WriteTank", !.tank = FALSE]
        ELSE sc[i]]

\* _deselect_and_disable_write_nodes, then _deselect_non_write_nodes
DeselectAndDisable(sc, nodes) ==
    [i \in DOMAIN sc |->
        IF sc[i].name \in Range(nodes) THEN [sc[i] EXCEPT !.selected = FALSE, !.disabled = TRUE]
        ELSE sc[i]]

DeselectNonWrite(sc) ==
    [i \in DOMAIN sc |-> IF sc[i].class # "Write" THEN [sc[i] EXCEPT !.selected = FALSE] ELSE sc[i]]

\* _select_and_enable_write_node
SelectAndEnable(sc, name) ==
    [i \in DOMAIN sc |->
        IF sc[i].name = name THEN [sc[i] EXCEPT !.selected = TRUE, !.disabled = FALSE] ELSE sc[i]]

(***************************************************************************)
(* Descriptor files and the temporary script.                              *)
(***************************************************************************)
\* SubmitterPanel._get_nuke_script_path returns None for a scene never saved
Unsaved(name) == name = <<>> \/ name = RootDefaultName

\* the paths _build_submission_files makes from uuid.uuid4(): uid is fresh
JobInfoPath(output_type, uid) == [kind |-> "job", output_type |-> output_type, uid |-> uid]

PluginInfoPath(output_type, uid) == [kind |-> "plugin", output_type |-> output_type, uid |-> uid]

\* the OutputDirectory<i> lines of _write_job_info, in the order written
OutputDirectoryLines(plat, output_type, file, output_file) ==
    <<[key |-> 0, dir |-> Dirname(plat, file)]>>
    \o (IF output_type = "exr" THEN <<[key |-> 0, dir |-> Dirname(plat, file)]>> ELSE <<>>)
    \o (IF output_type = "mov" THEN <<[key |-> 1, dir |-> Dirname(plat, output_file)]>> ELSE <<>>)

\* faulty variant of ChunkSizeOf: the user's chunk size for every output type
ChunkSizeOfUserValue(f, output_type) == f.chunk_size

\* the chunk size line of _write_job_info
ChunkSizeOf(f, output_type) == IF output_type # "mov" THEN f.chunk_size ELSE MovChunkSize

\* SubmitterPanel._write_job_info: the file written, for a frame range that parses
JobInfo(f, plat, ocio, root, output_type, node, file, output_file, uid) ==
    [path |-> JobInfoPath(output_type, uid),
     Plugin |-> "Nuke",
     Name |-> <<node, IF output_type = "mov" THEN "Movie" ELSE "Rendered Image">>,
     BatchName |-> Basename(plat, root),
     Frames |-> GetAdjustedFrameRange(f).value,
     ChunkSize |-> ChunkSizeOf(f, output_type),
     Priority |-> f.priority,
     Pool |-> "none",
     EnvironmentKeyValue0 |-> GetOcioPath(plat, ocio),
     OutputDirectory |-> OutputDirectoryLines(plat, output_type, file, output_file)]

\* SubmitterPanel._write_plugin_info
PluginInfo(output_type, uid, script_path) ==
    [path |-> PluginInfoPath(output_type, uid), SceneFile |-> script_path, Version |-> "NUKE_VERSION"]

\* SubmitterPanel._write_script_content: the populated template, or the
\* exception its except clause turns into a message and None
WriteScriptContent(f, plat, ocio, read_file_path, output_file_path, res) ==
    LET root_parts == Split(f.frame_range, "-")
        read_fr == GetAdjustedFrameRange(f)
        read_parts == Split(read_fr.value, "-")
    IN  IF Len(root_parts) # 2 THEN Raised("ValueError")
        ELSE IF read_fr.exc # "none" THEN Raised(read_fr.exc)
        ELSE IF Len(read_parts) # 2 \/ \E i \in 1..Len(read_parts) : ~IntParses(read_parts[i])
        THEN Raised("ValueError")
        ELSE IF f.add_burn /\ res.burn = "missing" THEN Raised("FileNotFoundError")
        ELSE IF f.add_burn /\ res.burn = "nomarker" THEN Raised("UnboundLocalError")
        ELSE IF res.template = "missing" THEN Raised("FileNotFoundError")
        ELSE IF res.template = "badformat" THEN Raised("KeyError")
        ELSE Returned([root_first |-> root_parts[1],
                       root_last |-> root_parts[2],
                       read_first |-> IntOf(read_parts[1]),
                       read_last |-> IntOf(read_parts[2]),
                       OCIO_PATH |-> GetOcioPath(plat, ocio),
                       read_file_path |-> read_file_path,
                       output_file_path |-> output_file_path,
                       burn_in_file |-> IF f.add_burn THEN "burn" ELSE ""])

\* the temporary script of the node whose turn it is: none opened yet
NoScript ==
    [opened |-> FALSE, written |-> FALSE, path |-> <<>>, toolkit_raised |-> FALSE,
     resolved |-> NonePath, output_file_path |-> <<>>, content |-> <<>>]

\* faulty variant of JobGroups: only the first pair is appended
JobGroupsFirstOnly(files) ==
    IF files = <<>> THEN <<>> ELSE <<"-job", Head(files).job, Head(files).plugin>>

\* the -job groups _build_submission_command appends
RECURSIVE JobGroups(_)
JobGroups(files) ==
    IF files = <<>> THEN <<>>
    ELSE <<"-job", Head(files).job, Head(files).plugin>> \o JobGroups(Tail(files))

\* the command line of _execute_command
Command(files) == <<"deadlinecommand", "-Multi", "-dependent">> \o JobGroups(files)

\* what _build_submission_files returns: None, or the pair of paths
NoFiles == [none |-> TRUE, job |-> "", plugin |-> ""]

FilePair(output_type, uid) ==
    [none |-> FALSE, job |-> JobInfoPath(output_type, uid), plugin |-> PluginInfoPath(output_type, uid)]

Message(about, text) == [kind |-> "message", about |-> about, text |-> text]

\* faulty variant of HandleSubmissionResult: the exit status is not looked at
HandleSubmissionResultAlwaysSuccess(result) == Message("success", result.stdout)

\* SubmitterPanel._handle_submission_result: the message shown
HandleSubmissionResult(result) ==
    IF result.returncode # 0 THEN Message("failed", result.stderr)
    ELSE Message("success", result.stdout)

AskFilesFound == [kind |-> "ask", about |-> "files_found", text |-> ""]

(***************************************************************************)
(* The initial state: a session in which show has not been called yet.     *)
(***************************************************************************)
\* the knob values _initialize_knobs and _set_default_values give a new panel
DefaultForm ==
    [frame_range |-> CHOOSE r \in FrameRanges : TRUE, chunk_size |-> 10, priority |-> 33,
     render_review |-> TRUE, add_slate |-> TRUE, add_burn |-> TRUE]

\* temporary scripts of earlier sessions, by number
EarlierScripts == {{}, {1}, {2}, 1..9}

\* no call of show has been made
Fresh ==
    /\ dirs = {}
    /\ scriptLog = <<>>
    /\ passes = 0
    /\ pc = "idle"
    /\ outcome = "none"
    /\ exception = "none"
    /\ form = DefaultForm
    /\ eligible = <<>>
    /\ write_nodes = <<>>
    /\ chk = 0
    /\ checks = <<>>
    /\ idx = 0
    /\ app = FALSE
    /\ conversions = <<>>
    /\ node_file = <<>>
    /\ submission_files = <<>>
    /\ descriptors = <<>>
    /\ nWritten = 0
    /\ scriptFile = NoScript
    /\ messages = <<>>
    /\ invocations = <<>>

\* scenes of the flow specification: every node selected, or none
FlowScenes == {sc \in Scenes : \A i, j \in DOMAIN sc : sc[i].selected = sc[j].selected}

Init ==
    /\ rootName \in RootNames
    /\ platform \in Platforms
    /\ ocioEnv = CHOOSE o \in OcioValues : o # <<>>
    /\ scene \in FlowScenes
    /\ \E earlier \in EarlierScripts :
          tmpFiles = IF Unsaved(rootName) THEN {}
                     ELSE {NewScriptPath(platform, rootName, n) : n \in earlier}
    /\ Fresh

\* the scene of the input specification: one selected Write node
OneWriteNode == <<[name |-> 1, class |-> "Write", selected |-> TRUE, disabled |-> FALSE, tank |-> FALSE]>>

InitInputs ==
    /\ rootName = SavedScript
    /\ platform \in Platforms
    /\ ocioEnv \in OcioValues
    /\ scene = OneWriteNode
    /\ tmpFiles = {}
    /\ Fresh

(***************************************************************************)
(* SubmitterPanel.show, in steps: each step ends where show waits for the  *)
(* user or for the environment.                                            *)
(***************************************************************************)
\* an exception leaves show
Raise(e) ==
    /\ pc' = "idle"
    /\ outcome' = "raised"
    /\ exception' = e

Return ==
    /\ pc' = "idle"
    /\ outcome' = "returned"
    /\ exception' = "none"

\* lines 580-592: the panel is shown; the write nodes are collected
Show(ok, send_selected, f) ==
    /\ pc = "idle"
    /\ passes' = passes + 1
    /\ checks' = <<>> /\ idx' = 0 /\ app' = FALSE /\ conversions' = <<>>
    /\ node_file' = <<>> /\ submission_files' = <<>> /\ descriptors' = <<>> /\ nWritten' = 0
    /\ scriptFile' = NoScript /\ invocations' = <<>>
    /\ LET nodes == GetWriteNodes(scene, send_selected)
       IN  IF ~ok
           THEN /\ pc' = "idle" /\ outcome' = "cancelled" /\ exception' = "none"
                /\ messages' = <<>> /\ eligible' = <<>> /\ write_nodes' = <<>>
                /\ chk' = 0
                /\ UNCHANGED form
           ELSE IF nodes = <<>>
           THEN /\ Return
                /\ messages' = <<Message("no_write_nodes", "")>>
                /\ eligible' = <<>> /\ write_nodes' = <<>>
                /\ chk' = 0
                /\ UNCHANGED form
           ELSE /\ pc' = "check" /\ outcome' = "running" /\ exception' = "none"
                /\ messages' = <<>>
                /\ eligible' = nodes /\ write_nodes' = nodes
                /\ form' = f
                /\ chk' = 1
    /\ UNCHANGED <<env, scene, disk>>

\* lines 594-596: one evaluation of _check_write_has_files inside any()
CheckNode(dir, answer) ==
    /\ pc = "check"
    /\ dir = "files" \/ ~answer
    /\ LET result == CheckWriteHasFiles(dir, answer)
       IN  /\ checks' = Append(checks, [node |-> write_nodes[chk], dir |-> dir, result |-> result])
           /\ messages' = IF dir = "files" THEN Append(messages, AskFilesFound) ELSE messages
           /\ IF Truthy(result)
              THEN pc' = "convert" /\ UNCHANGED <<chk, outcome, exception>>
              ELSE IF chk < Len(write_nodes)
              THEN chk' = chk + 1 /\ UNCHANGED <<pc, outcome, exception>>
              ELSE Return /\ UNCHANGED chk
    /\ UNCHANGED <<env, scene, disk, passes, form, eligible, write_nodes, idx, app, conversions,
                   node_file, submission_files, descriptors, nWritten, scriptFile, invocations>>

\* lines 598-603: conversion to Write nodes, then every node of the batch is
\* deselected and disabled
Convert(available, lost) ==
    /\ pc = "convert"
    /\ LET tanks == {n \in Range(write_nodes) : NodeOf(scene, n).class = "WriteTank"}
           calls == available /\ tanks # {}
           updated == ConvertedNodes(scene, write_nodes, available, lost)
           converted == IF calls THEN ConvertToWrite(scene, lost) ELSE scene
       IN  /\ lost \subseteq (IF calls THEN tanks ELSE {})
           /\ app' = available
           /\ conversions' = IF calls THEN Append(conversions, "to") ELSE conversions
           /\ write_nodes' = updated
           /\ scene' = DeselectNonWrite(DeselectAndDisable(converted, updated))
           /\ idx' = 1
           /\ pc' = IF updated = <<>> THEN "restore" ELSE "image"
    /\ UNCHANGED <<env, disk, passes, outcome, exception, form, eligible, chk, checks, node_file,
                   submission_files, descriptors, nWritten, scriptFile, messages, invocations>>

\* lines 606, 202: the node is selected and enabled, then
\* _build_submission_files("exr", node)
BuildImageJob(file) ==
    /\ pc = "image"
    /\ LET node == write_nodes[idx]
           uid == <<passes, idx>>
           frames == GetAdjustedFrameRange(form)
       IN  /\ scene' = SelectAndEnable(scene, node)
           /\ node_file' = file
           /\ scriptFile' = NoScript
           /\ IF Unsaved(rootName)
              THEN /\ messages' = Append(messages, Message("save_script", ""))
                   /\ submission_files' = <<NoFiles>>
                   /\ descriptors' = <<>>
                   /\ pc' = IF form.render_review THEN "movie" ELSE "exec"
                   /\ UNCHANGED <<nWritten, outcome, exception>>
              ELSE IF frames.exc # "none"
              THEN /\ Raise(frames.exc)
                   /\ submission_files' = <<>>
                   /\ descriptors' = <<>>
                   /\ UNCHANGED <<messages, nWritten>>
              ELSE /\ submission_files' = <<FilePair("exr", uid)>>
                   /\ descriptors' = <<JobInfo(form, platform, ocioEnv, rootName, "exr", node, file, <<>>, uid),
                                       PluginInfo("exr", uid, rootName)>>
                   /\ nWritten' = nWritten + 2
                   /\ pc' = IF form.render_review THEN "movie" ELSE "exec"
                   /\ UNCHANGED <<messages, outcome, exception>>
    /\ UNCHANGED <<env, disk, passes, form, eligible, write_nodes, chk, checks, idx, app,
                   conversions, invocations>>

\* lines 204-206: _build_temp_nuke_script(node), then
\* _build_submission_files("mov", node, script_path, output_file)
BuildMovieJob(toolkit, res) ==
    /\ pc = "movie"
    /\ IF Unsaved(rootName)
       THEN \* _get_nuke_script_path returns None and os.path.dirname(None) raises
            /\ messages' = Append(messages, Message("save_script", ""))
            /\ Raise("TypeError")
            /\ UNCHANGED <<disk, submission_files, descriptors, nWritten, scriptFile>>
       ELSE LET node == write_nodes[idx]
                uid == <<passes, idx>>
                number == FirstFreeNumber(platform, rootName, tmpFiles, 1)
                new_script_path == NewScriptPath(platform, rootName, number)
                read_file_path == Replace(node_file, <<"\\">>, <<"/">>)
                resolved == GetRenderTemplate(platform, toolkit)
                output_file_path == OutputFilePath(platform, resolved, node_file)
                content == WriteScriptContent(form, platform, ocioEnv, read_file_path,
                                              output_file_path, res)
            IN  /\ dirs' = dirs \cup {NewScriptDir(platform, rootName)}
                                \cup MadeDirs(platform, resolved, node_file)
                /\ scriptLog' = Append(scriptLog, [number |-> number, path |-> new_script_path,
                                                   existed |-> new_script_path \in tmpFiles,
                                                   generated |-> content.exc = "none"])
                /\ tmpFiles' = tmpFiles \cup {new_script_path}
                /\ IF content.exc # "none"
                   THEN \* the message of the except clause, then script_file.write(None) raises
                        /\ messages' = Append(messages, Message("script_error", content.exc))
                        /\ scriptFile' = [opened |-> TRUE, written |-> FALSE, path |-> new_script_path,
                                          toolkit_raised |-> toolkit.raises, resolved |-> resolved,
                                          output_file_path |-> output_file_path, content |-> <<>>]
                        /\ Raise("TypeError")
                        /\ UNCHANGED <<submission_files, descriptors, nWritten>>
                   ELSE /\ scriptFile' = [opened |-> TRUE, written |-> TRUE, path |-> new_script_path,
                                          toolkit_raised |-> toolkit.raises, resolved |-> resolved,
                                          output_file_path |-> output_file_path,
                                          content |-> content.value]
                        /\ submission_files' = Append(submission_files, FilePair("mov", uid))
                        /\ descriptors' = descriptors \o
                              <<JobInfo(form, platform, ocioEnv, rootName, "mov", node, node_file,
                                        output_file_path, uid),
                                PluginInfo("mov", uid, new_script_path)>>
                        /\ nWritten' = nWritten + 2
                        /\ pc' = "exec"
                        /\ UNCHANGED <<messages, outcome, exception>>
    /\ UNCHANGED <<env, scene, passes, form, eligible, write_nodes, chk, checks, idx, app,
                   conversions, node_file, invocations>>

\* line 612: _execute_command(submission_files), then the loop goes on
ExecuteCommand(result) ==
    /\ pc = "exec"
    /\ IF \E i \in DOMAIN submission_files : submission_files[i].none
       THEN \* _build_submission_command unpacks None
            /\ Raise("TypeError")
            /\ UNCHANGED <<messages, invocations, idx>>
       ELSE IF ~result.launched
       THEN \* subprocess.run cannot start the tool
            /\ Raise("FileNotFoundError")
            /\ UNCHANGED <<messages, invocations, idx>>
       ELSE /\ invocations' = Append(invocations, [node |-> write_nodes[idx],
                                                   command |-> Command(submission_files),
                                                   result |-> result])
            /\ messages' = Append(messages, HandleSubmissionResult(result))
            /\ idx' = idx + 1
            /\ pc' = IF idx < Len(write_nodes) THEN "image" ELSE "restore"
            /\ UNCHANGED <<outcome, exception>>
    /\ UNCHANGED <<env, scene, disk, passes, form, eligible, write_nodes, chk, checks, app,
                   conversions, node_file, submission_files, descriptors, nWritten, scriptFile>>

\* line 615: _convert_write_nodes(write_nodes, "from")
Restore ==
    /\ pc = "restore"
    /\ conversions' = IF app THEN Append(conversions, "from") ELSE conversions
    /\ scene' = IF app THEN ConvertFromWrite(scene) ELSE scene
    /\ Return
    /\ UNCHANGED <<env, disk, passes, form, eligible, write_nodes, chk, checks, idx, app, node_file,
                   submission_files, descriptors, nWritten, scriptFile, messages, invocations>>

(***************************************************************************)
(* The flow specification: one call of show over a scene of up to MaxNodes *)
(* nodes, with one value or two of each string input.                      *)
(***************************************************************************)
FlowFrameRanges == {<<"1", "-", "3">>, <<"-", "2", "-", "3">>}

FlowForms ==
    {f \in Forms : f.frame_range \in FlowFrameRanges /\ f.chunk_size = 10 /\ f.add_slate /\ f.add_burn}

FlowReadPaths == {<<"/", "r", "/", "s", ".", "1", "0", "0", "1", ".", "e", "x", "r">>}

FlowToolkitOutcomes == {t \in ToolkitOutcomes : t.raises}

FlowResources == {r \in Resources : r.burn = "ok" /\ r.template \in {"ok", "missing"}}

Next ==
    \/ passes = 0 /\ \E ok \in BOOLEAN, send_selected \in BOOLEAN, f \in FlowForms :
          Show(ok, send_selected, f)
    \/ \E dir \in DirStates, answer \in BOOLEAN : CheckNode(dir, answer)
    \/ \E available \in BOOLEAN, lost \in SUBSET NodeNames : Convert(available, lost)
    \/ \E file \in FlowReadPaths : BuildImageJob(file)
    \/ \E toolkit \in FlowToolkitOutcomes, res \in FlowResources : BuildMovieJob(toolkit, res)
    \/ \E result \in ToolResults : ExecuteCommand(result)
    \/ Restore

Spec == Init /\ [][Next]_vars

(***************************************************************************)
(* The session specification: up to MaxPasses calls of show, one after the *)
(* other, over a scene of two write nodes whose output directories are     *)
(* absent and which the conversion finds again.                            *)
(***************************************************************************)
SessionScenes == {sc \in Scenes : Len(sc) = 2 /\ \A i \in DOMAIN sc : sc[i].class # "Grade" /\ sc[i].selected}

InitSession ==
    /\ rootName \in RootNames
    /\ platform \in Platforms
    /\ ocioEnv = CHOOSE o \in OcioValues : o # <<>>
    /\ scene \in SessionScenes
    /\ \E earlier \in EarlierScripts :
          tmpFiles = IF Unsaved(rootName) THEN {}
                     ELSE {NewScriptPath(platform, rootName, n) : n \in earlier}
    /\ Fresh

NextSession ==
    \/ passes < MaxPasses /\ \E ok \in BOOLEAN, send_selected \in BOOLEAN, f \in FlowForms :
          Show(ok, send_selected, f)
    \/ CheckNode("absent", FALSE)
    \/ \E available \in BOOLEAN : Convert(available, {})
    \/ \E file \in FlowReadPaths : BuildImageJob(file)
    \/ \E toolkit \in FlowToolkitOutcomes, res \in FlowResources : BuildMovieJob(toolkit, res)
    \/ \E result \in ToolResults : ExecuteCommand(result)
    \/ Restore

SpecSession == InitSession /\ [][NextSession]_vars

(***************************************************************************)
(* The input specification: one call of show for one Write node, over all  *)
(* the string inputs.                                                      *)
(***************************************************************************)
InputToolResults == {r \in ToolResults : r.launched /\ r.returncode = 0}

NextInputs ==
    \/ passes = 0 /\ \E f \in Forms : Show(TRUE, FALSE, f)
    \/ CheckNode("absent", FALSE)
    \/ Convert(FALSE, {})
    \/ \E file \in ReadPaths : BuildImageJob(file)
    \/ \E toolkit \in ToolkitOutcomes, res \in Resources : BuildMovieJob(toolkit, res)
    \/ \E result \in InputToolResults : ExecuteCommand(result)
    \/ Restore

SpecInputs == InitInputs /\ [][NextInputs]_vars

(***************************************************************************)
(* The claims.                                                             *)
(***************************************************************************)
JobIndexes == {i \in DOMAIN descriptors : descriptors[i].path.kind = "job"}

RangeStr(a, b) == IntStr(a) \o <<"-">> \o IntStr(b)

ClaimFrames == {-2, 0, 1, 2, 3, 9, 10, 100}

\* C1: for every frame range "A-B" of the form (integers A <= B) the Frames
\* entry of every job descriptor written is "(A-1)-B" when the slate toggle
\* is enabled and "A-B" when it is disabled.
C1_AdjustedFrameRange ==
    \A i \in JobIndexes : \A a, b \in ClaimFrames :
        (a <= b /\ form.frame_range = RangeStr(a, b))
            => descriptors[i].Frames = RangeStr(IF form.add_slate THEN a - 1 ELSE a, b)

\* C4: in every job descriptor written the ChunkSize of a movie job is
\* 1000000 and the ChunkSize of an image-sequence job is the chunk size of
\* the form.
C4_ChunkSize ==
    \A i \in JobIndexes :
        IF descriptors[i].path.output_type = "mov"
        THEN descriptors[i].ChunkSize = 1000000
        ELSE descriptors[i].ChunkSize = form.chunk_size

C4_Witness ==
    /\ form.chunk_size = 1
    /\ \E i \in JobIndexes : descriptors[i].path.output_type = "mov"
    /\ \E i \in JobIndexes : descriptors[i].path.output_type = "exr"

\* path is <dir>/<name>.<four or more digits>.<extension>: k is the last
\* slash, i and j the dots around the digits
FrameNumbered(path, k, i, j) ==
    /\ path[k] = "/" /\ \A m \in (k + 1)..Len(path) : path[m] # "/"
    /\ k + 1 < i /\ i < j /\ j < Len(path)
    /\ path[i] = "." /\ path[j] = "."
    /\ j - i - 1 >= 4
    /\ \A m \in (i + 1)..(j - 1) : IsDigit(path[m])
    /\ \A m \in (j + 1)..Len(path) : path[m] # "."

\* <dir>/review/<name>.mov
ReviewMovie(path, k, i) == SubSeq(path, 1, k) \o ReviewName \o <<"/">> \o SubSeq(path, k + 1, i - 1) \o MovSuffix

ForwardSlashes(p) == [m \in DOMAIN p |-> IF p[m] = "\\" THEN "/" ELSE p[m]]

\* the review output path of the temporary script for read paths with one of
\* the extensions
ReviewPathFor(extensions) ==
    scriptFile.opened =>
        /\ scriptFile.toolkit_raised => (scriptFile.resolved.none \/ scriptFile.resolved.path = <<>>)
        /\ ~(scriptFile.resolved.none \/ scriptFile.resolved.path = <<>>)
              => scriptFile.output_file_path = ForwardSlashes(scriptFile.resolved.path)
        /\ (scriptFile.resolved.none \/ scriptFile.resolved.path = <<>>)
              => \A k, i, j \in 1..Len(node_file) :
                    (FrameNumbered(node_file, k, i, j) /\ SubSeq(node_file, j, Len(node_file)) \in extensions)
                        => /\ scriptFile.output_file_path = ReviewMovie(node_file, k, i)
                           /\ \E d \in dirs : ForwardSlashes(d) = SubSeq(node_file, 1, k) \o ReviewName

ClaimExtensions == {ExrSuffix, <<".", "p", "n", "g">>}

RECURSIVE OcioTranslated(_, _)
OcioTranslated(ocio, out) ==
    IF ocio = <<>> THEN out = <<>>
    ELSE IF StartsWith(ocio, VolumesProduction)
    THEN /\ StartsWith(out, <<"P", ":", "/">>)
         /\ OcioTranslated(Drop(ocio, Len(VolumesProduction)), Drop(out, 3))
    ELSE /\ out # <<>>
         /\ Head(out) = (IF Head(ocio) = "\\" THEN "/" ELSE Head(ocio))
         /\ OcioTranslated(Tail(ocio), Tail(out))

OcioResolved(value) ==
    IF ocioEnv = <<>> THEN value = <<>>
    ELSE IF platform = "Windows" THEN value = ocioEnv
    ELSE OcioTranslated(ocioEnv, value)

\* C10: the OCIO value of every job descriptor (EnvironmentKeyValue0) and of
\* the generated review script is empty when the variable is unset or empty,
\* the variable unchanged on a Windows host, and on another host the variable
\* with every "/Volumes/production/" replaced by "P:/" and every backslash by
\* a forward slash.
C10_OcioPath ==
    /\ \A i \in JobIndexes : OcioResolved(descriptors[i].EnvironmentKeyValue0)
    /\ scriptFile.written => OcioResolved(scriptFile.content.OCIO_PATH)

C10_Witness ==
    /\ platform # "Windows"
    /\ Len(ocioEnv) > 2 * Len(VolumesProduction)
    /\ \E m \in DOMAIN ocioEnv : ocioEnv[m] = "\\"
    /\ scriptFile.written
    /\ \E i \in JobIndexes : descriptors[i].path.output_type = "mov"

\* show has gone past the existing-files check
Submitting == idx > 0

\* show has returned after the loop over the write nodes, every tool exit zero
AllStepsSucceeded ==
    /\ pc = "idle" /\ outcome = "returned" /\ Submitting
    /\ Len(write_nodes) = Len(eligible)
    /\ \A k \in DOMAIN invocations : invocations[k].result.returncode = 0

\* <tool> -Multi -dependent, then one "-job <job> <plugin>" group per output
\* variant: image, then movie when review is enabled
CommandForm(command, review) ==
    LET groups == IF review THEN 2 ELSE 1
    IN  /\ Len(command) = 3 + 3 * groups
        /\ command[1] = "deadlinecommand" /\ command[2] = "-Multi" /\ command[3] = "-dependent"
        /\ \A g \in 1..groups :
              /\ command[3 * g + 1] = "-job"
              /\ command[3 * g + 2].kind = "job" /\ command[3 * g + 3].kind = "plugin"
              /\ command[3 * g + 2].output_type = (IF g = 1 THEN "exr" ELSE "mov")
              /\ command[3 * g + 3].output_type = command[3 * g + 2].output_type
              /\ command[3 * g + 3].uid = command[3 * g + 2].uid

PositionIn(seq, x) == CHOOSE k \in DOMAIN seq : seq[k] = x

\* a WriteTank node of the batch that the integration app converted (and, by
\* the end of the pass, restored)
Converted(node) == app /\ InScene(scene, node) /\ NodeOf(scene, node).class = "WriteTank"

\* C2 as stated: for a pass over N eligible write nodes in which every step
\* succeeds there are exactly N invocations, invocation k for eligible node
\* k, each of the form <tool> -Multi -dependent with 2 groups (image, movie)
\* when review is enabled and 1 group (image) when it is disabled.
C2_EligibleOrder ==
    AllStepsSucceeded =>
        /\ Len(invocations) = Len(eligible)
        /\ \A k \in DOMAIN invocations :
              /\ invocations[k].node = eligible[k]
              /\ CommandForm(invocations[k].command, form.render_review)

\* C2, amended: exactly N invocations, one per eligible node, in the order of
\* the list the conversion returns: eligible order, except that the WriteTank
\* nodes the integration app converted come after the other nodes; each
\* invocation of the stated form.
C2_ConvertedOrder ==
    AllStepsSucceeded =>
        /\ Len(invocations) = Len(eligible)
        /\ \A n \in Range(eligible) : \E k \in DOMAIN invocations : invocations[k].node = n
        /\ \A k \in DOMAIN invocations :
              /\ invocations[k].node \in Range(eligible)
              /\ CommandForm(invocations[k].command, form.render_review)
        /\ \A j, k \in DOMAIN invocations :
              j < k => LET x == invocations[j].node
                           y == invocations[k].node
                       IN  IF Converted(x) = Converted(y)
                           THEN PositionIn(eligible, x) < PositionIn(eligible, y)
                           ELSE Converted(y)

C2_Witness ==
    /\ AllStepsSucceeded
    /\ form.render_review
    /\ Len(invocations) = 2
    /\ invocations[1].node = eligible[2]

\* C3: a step that runs the external tool for node k adds exactly one
\* invocation, shows the failure message with the captured stderr when the
\* exit status is nonzero and the success message with the captured stdout
\* when it is zero, and in both cases leaves the pass running at node k+1
\* (at the restore step after the last node).
C3_Step ==
    (invocations' # <<>> /\ Len(invocations') # Len(invocations)) =>
        LET last == invocations'[Len(invocations')]
        IN  /\ invocations' = Append(invocations, last)
            /\ last.node = write_nodes[idx]
            /\ messages' = Append(messages,
                  IF last.result.returncode # 0
                  THEN [kind |-> "message", about |-> "failed", text |-> last.result.stderr]
                  ELSE [kind |-> "message", about |-> "success", text |-> last.result.stdout])
            /\ idx' = idx + 1
            /\ pc' = IF idx < Len(write_nodes) THEN "image" ELSE "restore"
            /\ outcome' = "running" /\ exception' = "none"

C3_NonzeroExit == [][C3_Step]_vars

C3_Witness ==
    /\ Len(invocations) = 2
    /\ invocations[1].result.returncode # 0
    /\ invocations[1].node # invocations[2].node
    /\ \E m \in DOMAIN messages : messages[m].about = "failed" /\ messages[m].text = invocations[1].result.stderr

\* <script base name>_tmp_NN.nk in the tmp directory beside the scene script
ExpectedScriptName(n) ==
    LET k == CHOOSE k \in DOMAIN rootName :
                 rootName[k] = "/" /\ \A m \in (k + 1)..Len(rootName) : rootName[m] # "/"
        d == CHOOSE d \in DOMAIN rootName :
                 rootName[d] = "." /\ \A m \in (d + 1)..Len(rootName) : rootName[m] # "."
    IN  SubSeq(rootName, 1, k) \o <<"t", "m", "p", "/">> \o SubSeq(rootName, k + 1, d - 1)
        \o <<"_", "t", "m", "p", "_">> \o <<DigitChars[(n \div 10) + 1], DigitChars[(n % 10) + 1]>>
        \o <<".", "n", "k">>

\* C5: every temporary script is opened under the name
\* <script base name>_tmp_NN.nk with the smallest NN (two digits, from 01)
\* whose file was not in the tmp directory, a file that did not exist before;
\* over the calls of a session the numbers are strictly increasing, also
\* after a call whose script generation failed.
C5_TempScriptNames ==
    /\ \A i \in DOMAIN scriptLog :
          /\ ~scriptLog[i].existed
          /\ scriptLog[i].number >= 1
          /\ ForwardSlashes(scriptLog[i].path) = ExpectedScriptName(scriptLog[i].number)
          /\ scriptLog[i].path \in tmpFiles
          /\ \A m \in 1..(scriptLog[i].number - 1) :
                \E file \in tmpFiles : ForwardSlashes(file) = ExpectedScriptName(m)
    /\ \A i, j \in DOMAIN scriptLog : i < j => scriptLog[i].number < scriptLog[j].number

C5_Witness ==
    \E i, j \in DOMAIN scriptLog : i < j /\ ~scriptLog[i].generated /\ scriptLog[j].number >= 10

ScriptErrorShown == \E m \in DOMAIN messages : messages[m].about = "script_error"

C7_ExistingFilesCheck ==
    (passes > 0 /\ eligible # <<>> /\ pc # "check") =>
        /\ (Submitting \/ pc = "convert") <=> (\A c \in DOMAIN checks : checks[c].result # "False")
        /\ Cardinality({m \in DOMAIN messages : messages[m].kind = "ask"})
              = Cardinality({c \in DOMAIN checks : checks[c].dir = "files"})

\* C8: when the scene has never been saved and the pass reaches the write
\* nodes, the user is prompted to save and the pass ends with no descriptor
\* file, no temporary script, no invocation of the tool and no exception.
C8_UnsavedAborts ==
    (Unsaved(rootName) /\ pc = "idle" /\ Submitting /\ write_nodes # <<>>) =>
        /\ \E m \in DOMAIN messages : messages[m].about = "save_script"
        /\ nWritten = 0
        /\ scriptLog = <<>>
        /\ invocations = <<>>
        /\ outcome = "returned"

\* C11: while node k of the batch has had its image job built and until the
\* tool has been invoked for it, node k is selected and enabled and every
\* other write node of the batch is disabled.
C11_OnlyCurrentNodeEnabled ==
    (pc \in {"movie", "exec"} /\ outcome = "running") =>
        LET current == write_nodes[idx]
        IN  /\ NodeOf(scene, current).selected
            /\ ~NodeOf(scene, current).disabled
            /\ \A n \in Range(write_nodes) \ {current} : NodeOf(scene, n).disabled

\* the pass has gone through the conversion step
PastConversion == passes > 0 /\ (Submitting \/ pc = "restore")

\* C12: a pass that converted its nodes to Write nodes and is over, whether
\* its nodes succeeded, failed in the tool or failed in script generation, has
\* converted back exactly once; the conversion back never happens while the
\* loop over the nodes is running; with the integration app unavailable
\* neither conversion happens and the node list is the collected one.
C12_RestoredOncePerBatch ==
    /\ (pc = "idle" /\ PastConversion /\ Head(conversions \o <<"none">>) = "to"
          /\ (outcome = "returned" \/ ScriptErrorShown))
          => conversions = <<"to", "from">>
    /\ (pc # "idle" /\ PastConversion) => conversions \in {<<>>, <<"to">>}
    /\ (PastConversion /\ ~app) => (conversions = <<>> /\ write_nodes = eligible)

\* C13: every job descriptor has one output-directory line per output kind
\* and no key twice: an image-sequence job exactly one line, for the write
\* node's directory; a movie job that line and exactly one more, for the
\* directory of the movie.
C13_OutputDirectoryEntries ==
    \A i \in JobIndexes :
        LET lines == descriptors[i].OutputDirectory
            movie == descriptors[i].path.output_type = "mov"
        IN  /\ \A a, b \in DOMAIN lines : a # b => lines[a].key # lines[b].key
            /\ Len(lines) = IF movie THEN 2 ELSE 1
            /\ lines[1] = [key |-> 0, dir |-> Dirname(platform, node_file)]
            /\ movie => lines[2] = [key |-> 1, dir |-> Dirname(platform, scriptFile.output_file_path)]

=============================================================================
